---- MODULE Spec2Model ----
(***************************************************************************)
(* Resume screening backend: the scoring pipeline (resume_filter.py:        *)
(* process_resume), the recommendation pipeline (get_recommendations) and   *)
(* the Flask handlers /screen and /batch_screen (app.py).                   *)
(*                                                                          *)
(* Representation.                                                          *)
(*  - A string that the code inspects (a filename, a page's text) is a      *)
(*    sequence of one-character strings; a string the code only passes on   *)
(*    (a job description, a keyword, a reason) is a TLA+ string.            *)
(*  - aggregate_score is a rational with denominator 30, stored as its      *)
(*    numerator: 0.4, 0.3, 0.2 and (c/3*10)*0.1 are 12/30, 9/30, 6/30 and   *)
(*    10c/30.  Field agg30 of a score record is 30 * aggregate_score.       *)
(*  - A path is [folder, name]; os.path.join(folder, "") is the folder      *)
(*    itself.  disk maps the paths of regular files to their PDF content.   *)
(*  - The four LLM chains are black boxes: each invocation either returns   *)
(*    a value of its schema, chosen by the environment, or raises.          *)
(***************************************************************************)
EXTENDS Integers, Sequences, FiniteSets, TLC

VARIABLES
    disk,                 \* regular files: path -> PDF content
    \* ---- process_resume (resume_filter.py:159-206)
    ppc,                  \* position inside process_resume
    p_args,               \* job_description_prompt, resume_file_path, strictness_level
    extracted_keywords,   \* line 166
    categorized_keywords, \* line 169
    resume_text,          \* line 177
    resume_score,         \* line 190, then the return value
    p_raised,             \* the exception process_resume ended with
    call_log,             \* calls made by the current process_resume, in order
    \* ---- get_recommendations (resume_filter.py:208-226)
    rpc,                  \* position inside get_recommendations
    candidate_scores,     \* the argument: a list of dicts
    num_recommendations,  \* the argument
    sorted_candidates,    \* line 216: the same dict objects, as indices into the argument
    candidate_scores_json,\* line 219: the serialized list, as the list of dicts it encodes
    recommendations,      \* the RecommendationList returned
    r_raised,             \* the exception get_recommendations ended with
    rec_log,              \* invocations of the recommendation chain, in order
    \* ---- the request handlers (app.py:17-95)
    hpc,                  \* position inside the handler
    endpoint,             \* "screen" or "batch_screen"
    request,              \* request.files (the uploaded parts) and request.form
    idx,                  \* the file the handler is at (1-based)
    filename,             \* lines 38, 80: the sanitized name
    results,              \* line 75
    pending,              \* the response a return statement inside try/except set
    response,             \* what the handler ended with
    saved,                \* paths at which this request's save created a file
    invocations,          \* process_resume calls made for this request
    \* ---- requests served at the same time, one thread each
    threads               \* thread -> its handler's frame

pvars == <<ppc, p_args, extracted_keywords, categorized_keywords, resume_text,
           resume_score, p_raised, call_log>>

rvars == <<rpc, candidate_scores, num_recommendations, sorted_candidates,
           candidate_scores_json, recommendations, r_raised, rec_log>>

hvars == <<hpc, endpoint, request, idx, filename, results, pending, response, saved,
           invocations>>

vars == <<disk, pvars, rvars, hvars, threads>>

None == "None"

----------------------------------------------------------------------------
(* Bounds and program constants *)

MaxPages == 2
MaxCandidates == 3
MaxCount == 2
MaxReturned == 2
MaxFiles == 2

\* ResumeScore: "Score from 0-10" and "Score from 0-3"
MaxSubScore == 10
MaxClientNeed == 3

----------------------------------------------------------------------------
(* Sequences *)

RECURSIVE Concat(_)
Concat(ss) == IF ss = <<>> THEN <<>> ELSE Head(ss) \o Concat(Tail(ss))

SeqsUpTo(S, n) == UNION {[1..k -> S] : k \in 0..n}

----------------------------------------------------------------------------
(* PDF files and extract_text_from_pdf *)

\* page.extract_text() gives None (is_none) or a string
PageTexts == {[is_none |-> TRUE, text |-> <<>>],
              [is_none |-> FALSE, text |-> <<>>],
              [is_none |-> FALSE, text |-> <<"j">>]}

\* a PDF that pdfplumber cannot decode, or a sequence of pages
Pdfs == {[corrupt |-> TRUE, pages |-> <<>>]}
        \cup {[corrupt |-> FALSE, pages |-> ps] : ps \in SeqsUpTo(PageTexts, MaxPages)}

IsDir(path) == path.name = <<>>

Exists(path) == IsDir(path) \/ path \in DOMAIN disk

\* line 153: text += page.extract_text() or ""
PageOrEmpty(t) == IF t.is_none THEN <<>> ELSE t.text

\* lines 147-157; any exception (missing file, directory, undecodable) gives ""
extract_text_from_pdf(pdf_path) ==
    IF pdf_path \notin DOMAIN disk THEN <<>>
    ELSE IF disk[pdf_path].corrupt THEN <<>>
    ELSE Concat([i \in 1..Len(disk[pdf_path].pages) |->
                    PageOrEmpty(disk[pdf_path].pages[i])])

----------------------------------------------------------------------------
(* The values the LLM chains may return *)

JobDescriptions == {"jd"}

StrictnessLevels == {"medium", "very strict"}

KeywordOutputs == {<<>>, <<"sql", "proactive">>}

CategoryOutputs ==
    {[technical |-> <<>>, soft_skills |-> <<>>, extracurricular |-> <<>>,
      recruiter_requirements |-> <<>>],
     [technical |-> <<"sql">>, soft_skills |-> <<"proactive">>,
      extracurricular |-> <<>>, recruiter_requirements |-> <<"relocate">>]}

\* ValidationError: the output does not fit the schema; Exception: anything else
LLMErrors == {"ValidationError", "Exception"}

\* the schema declares plain int fields: nothing keeps a score inside its range
SubScores == {0, 7, MaxSubScore, MaxSubScore + 1}
ClientScores == {0, 2, MaxClientNeed, MaxClientNeed + 1}

\* aggregate_score as the LLM filled it in (default 0.0), times 30
LLMAggregates == {0, 213}

ScoreRecord(n, t, s, e, c, a) ==
    [name |-> n, technical_score |-> t, softskills_score |-> s,
     extracurricular_score |-> e, client_need_score |-> c, agg30 |-> a]

WideScores ==
    {ScoreRecord("Jane Doe", t, s, e, c, a) :
        t \in SubScores, s \in SubScores, e \in SubScores,
        c \in ClientScores, a \in LLMAggregates}

----------------------------------------------------------------------------
(* process_resume *)

\* client_need normalised as if it were out of 10: 0.1 c is 3c/30
AggregateScore30_ClientOutOfTen(r) ==
    12 * r.technical_score + 9 * r.softskills_score
    + 6 * r.extracurricular_score + 3 * r.client_need_score

\* lines 196-204, times 30: 0.4 t + 0.3 s + 0.2 e + 0.1 (c / 3 * 10)
AggregateScore30(r) ==
    12 * r.technical_score + 9 * r.softskills_score
    + 6 * r.extracurricular_score + 10 * r.client_need_score

\* a call that returned output
Logged(callee, input, output) ==
    Append(call_log, [callee |-> callee, input |-> input, output |-> output,
                      raised |-> FALSE])

\* a call that raised exc
LoggedRaise(callee, input, exc) ==
    Append(call_log, [callee |-> callee, input |-> input, output |-> exc,
                      raised |-> TRUE])

PipelineIdle ==
    /\ ppc = "idle"
    /\ p_args = None /\ extracted_keywords = <<>> /\ categorized_keywords = None
    /\ resume_text = <<>> /\ resume_score = None /\ p_raised = None
    /\ call_log = <<>>

\* the call: a fresh frame
EnterProcessResume(jd, path, strictness) ==
    /\ ppc' = "keywords"
    /\ p_args' = [job_description_prompt |-> jd, resume_file_path |-> path,
                  strictness_level |-> strictness]
    /\ extracted_keywords' = <<>> /\ categorized_keywords' = None
    /\ resume_text' = <<>> /\ resume_score' = None /\ p_raised' = None
    /\ call_log' = <<>>

Raise(exc) == ppc' = "raised" /\ p_raised' = exc

\* lines 165-166
KeywordsReturns(kw) ==
    /\ ppc = "keywords"
    /\ call_log' = Logged("keywords", p_args.job_description_prompt, kw)
    /\ extracted_keywords' = kw
    /\ ppc' = "categorize"
    /\ UNCHANGED <<threads, rvars, hvars, disk, p_args, categorized_keywords, resume_text, resume_score, p_raised>>

\* the first failure of the keyword chain is tried again
KeywordsRaises_RetryOnce(exc) ==
    /\ ppc = "keywords"
    /\ call_log' = LoggedRaise("keywords", p_args.job_description_prompt, exc)
    /\ IF call_log = <<>> THEN ppc' = ppc /\ p_raised' = p_raised ELSE Raise(exc)
    /\ UNCHANGED <<threads, rvars, hvars, disk, p_args, extracted_keywords, categorized_keywords, resume_text,
                   resume_score>>

KeywordsRaises(exc) ==
    /\ ppc = "keywords"
    /\ call_log' = LoggedRaise("keywords", p_args.job_description_prompt, exc)
    /\ Raise(exc)
    /\ UNCHANGED <<threads, rvars, hvars, disk, p_args, extracted_keywords, categorized_keywords, resume_text,
                   resume_score>>

\* lines 169-174
CategorizationReturns(cats) ==
    /\ ppc = "categorize"
    /\ call_log' = Logged("categorization", extracted_keywords, cats)
    /\ categorized_keywords' = cats
    /\ ppc' = "extract"
    /\ UNCHANGED <<threads, rvars, hvars, disk, p_args, extracted_keywords, resume_text, resume_score, p_raised>>

CategorizationRaises(exc) ==
    /\ ppc = "categorize"
    /\ call_log' = LoggedRaise("categorization", extracted_keywords, exc)
    /\ Raise(exc)
    /\ UNCHANGED <<threads, rvars, hvars, disk, p_args, extracted_keywords, categorized_keywords, resume_text,
                   resume_score>>

\* the check left out
TextMissing_Never(text) == FALSE

\* line 178: if not resume_text
TextMissing(text) == text = <<>>

\* lines 177-179
ExtractText ==
    /\ ppc = "extract"
    /\ resume_text' = extract_text_from_pdf(p_args.resume_file_path)
    /\ call_log' = Logged("extract_text_from_pdf", p_args.resume_file_path, resume_text')
    /\ IF TextMissing(resume_text')
         THEN Raise("ValueError")
         ELSE ppc' = "score" /\ p_raised' = p_raised
    /\ UNCHANGED <<threads, rvars, hvars, disk, p_args, extracted_keywords, categorized_keywords, resume_score>>

\* the strictness argument not passed on
ScoringInput_DefaultStrictness ==
    [resume_text |-> resume_text,
     technical |-> categorized_keywords.technical,
     soft_skills |-> categorized_keywords.soft_skills,
     extracurricular |-> categorized_keywords.extracurricular,
     client_need |-> categorized_keywords.recruiter_requirements,
     strictness |-> "medium"]

\* lines 182-189
ScoringInput ==
    [resume_text |-> resume_text,
     technical |-> categorized_keywords.technical,
     soft_skills |-> categorized_keywords.soft_skills,
     extracurricular |-> categorized_keywords.extracurricular,
     client_need |-> categorized_keywords.recruiter_requirements,
     strictness |-> p_args.strictness_level]

\* line 190
ScoringReturns(score) ==
    /\ ppc = "score"
    /\ call_log' = Logged("scoring", ScoringInput, score)
    /\ resume_score' = score
    /\ ppc' = "aggregate"
    /\ UNCHANGED <<threads, rvars, hvars, disk, p_args, extracted_keywords, categorized_keywords, resume_text,
                   p_raised>>

ScoringRaises(exc) ==
    /\ ppc = "score"
    /\ call_log' = LoggedRaise("scoring", ScoringInput, exc)
    /\ Raise(exc)
    /\ UNCHANGED <<threads, rvars, hvars, disk, p_args, extracted_keywords, categorized_keywords, resume_text,
                   resume_score>>

\* lines 196-206
ComputeAggregate ==
    /\ ppc = "aggregate"
    /\ resume_score' = [resume_score EXCEPT !.agg30 = AggregateScore30(resume_score)]
    /\ ppc' = "returned"
    /\ UNCHANGED <<threads, rvars, hvars, disk, p_args, extracted_keywords, categorized_keywords, resume_text,
                   p_raised, call_log>>

\* line 190 with the chain answering some record of the set given
ScoringAnswers(scores) ==
    ppc = "score" /\ \E score \in scores : ScoringReturns(score)

\* the steps of process_resume other than the scoring chain's answer
PipelineStep ==
    \/ \E kw \in KeywordOutputs : KeywordsReturns(kw)
    \/ \E exc \in LLMErrors : KeywordsRaises(exc)
    \/ \E cats \in CategoryOutputs : CategorizationReturns(cats)
    \/ \E exc \in LLMErrors : CategorizationRaises(exc)
    \/ ExtractText
    \/ \E exc \in LLMErrors : ScoringRaises(exc)
    \/ ComputeAggregate

----------------------------------------------------------------------------
(* get_recommendations *)

\* the value a candidate dict holds under 'aggregate_score': no such key, JSON
\* null, or a number (times 30)
Absent == [tag |-> "absent", n |-> 0]
Null == [tag |-> "null", n |-> 0]
Num(k) == [tag |-> "number", n |-> k]

AggregateValues == {Absent, Null, Num(0 - 30), Num(0), Num(213)}

Candidates == {[name |-> nm, aggregate_score |-> a] :
                 nm \in {"John Doe", "Jane Smith"}, a \in AggregateValues}

RecommendedCandidates == {[name |-> "John Doe", reason |-> "r1"],
                          [name |-> "Jane Smith", reason |-> "r2"]}

\* RecommendationList values the chain may return: the count is not enforced
RecommendationOutputs ==
    {[recommendations |-> l] : l \in SeqsUpTo(RecommendedCandidates, MaxReturned)}

\* line 216: x.get('aggregate_score', 0)
SortKey(x) == IF x.aggregate_score.tag = "absent" THEN Num(0) ELSE x.aggregate_score

Reverse(s) == [i \in 1..Len(s) |-> s[Len(s) + 1 - i]]

\* the stable insertion of index i into the ascending run: after every element
\* whose key is not greater (binarysort, a right bisection)
InsertAscending(run, i, cs) ==
    LET after == {k \in 1..Len(run) : SortKey(cs[run[k]]).n <= SortKey(cs[i]).n}
        at == IF after = {} THEN 0 ELSE CHOOSE k \in after : \A m \in after : m <= k
    IN  SubSeq(run, 1, at) \o <<i>> \o SubSeq(run, at + 1, Len(run))

RECURSIVE StableAscending(_, _, _)
StableAscending(run, todo, cs) ==
    IF todo = <<>> THEN run
    ELSE StableAscending(InsertAscending(run, Head(todo), cs), Tail(todo), cs)

\* sorted(...)[::-1]: the ascending stable sort of the list as given, reversed
SortedDescending_ReversedAfter(cs) ==
    Reverse(StableAscending(<<>>, [i \in 1..Len(cs) |-> i], cs))

\* sorted(cs, key, reverse=True): list.sort reverses the list, sorts it stably
\* ascending and reverses the result
SortedDescending(cs) ==
    Reverse(StableAscending(<<>>, Reverse([i \in 1..Len(cs) |-> i]), cs))

\* float < None raises TypeError; a list of two or more compares every element
SortRaises(cs) ==
    Len(cs) >= 2 /\ \E i \in 1..Len(cs) : SortKey(cs[i]).tag = "null"

RecommendIdle ==
    /\ rpc = "idle"
    /\ candidate_scores = <<>> /\ num_recommendations = 0
    /\ sorted_candidates = <<>> /\ candidate_scores_json = <<>>
    /\ recommendations = None /\ r_raised = None /\ rec_log = <<>>

\* the early return left out
NoCandidates_Never(cs) == FALSE

\* line 212: if not candidate_scores
NoCandidates(cs) == cs = <<>>

\* lines 212-213
ReturnEmpty ==
    /\ rpc = "start"
    /\ NoCandidates(candidate_scores)
    /\ recommendations' = [recommendations |-> <<>>]
    /\ rpc' = "returned"
    /\ UNCHANGED <<threads, disk, pvars, hvars, candidate_scores, num_recommendations, sorted_candidates,
                   candidate_scores_json, r_raised, rec_log>>

\* lines 216-219
SortAndSerialize ==
    /\ rpc = "start"
    /\ ~NoCandidates(candidate_scores)
    /\ IF SortRaises(candidate_scores)
         THEN /\ rpc' = "raised" /\ r_raised' = "TypeError"
              /\ UNCHANGED <<sorted_candidates, candidate_scores_json>>
         ELSE /\ sorted_candidates' = SortedDescending(candidate_scores)
              /\ candidate_scores_json' =
                    [i \in 1..Len(candidate_scores) |->
                        candidate_scores[sorted_candidates'[i]]]
              /\ rpc' = "invoke" /\ r_raised' = r_raised
    /\ UNCHANGED <<threads, disk, pvars, hvars, candidate_scores, num_recommendations, recommendations,
                   rec_log>>

\* lines 222-225
RecommendationInput ==
    [candidate_scores_json |-> candidate_scores_json,
     num_recommendations |-> num_recommendations]

\* the list cut to the requested count before it is returned
RecommendationsReturns_Truncated(out) ==
    /\ rpc = "invoke"
    /\ rec_log' = Append(rec_log, [input |-> RecommendationInput, output |-> out,
                                 raised |-> FALSE])
    /\ recommendations' =
          [recommendations |->
              SubSeq(out.recommendations, 1,
                     IF Len(out.recommendations) < num_recommendations
                       THEN Len(out.recommendations) ELSE num_recommendations)]
    /\ rpc' = "returned"
    /\ UNCHANGED <<threads, disk, pvars, hvars, candidate_scores, num_recommendations, sorted_candidates,
                   candidate_scores_json, r_raised>>

\* lines 222-226
RecommendationsReturns(out) ==
    /\ rpc = "invoke"
    /\ rec_log' = Append(rec_log, [input |-> RecommendationInput, output |-> out,
                                 raised |-> FALSE])
    /\ recommendations' = out
    /\ rpc' = "returned"
    /\ UNCHANGED <<threads, disk, pvars, hvars, candidate_scores, num_recommendations, sorted_candidates,
                   candidate_scores_json, r_raised>>

RecommendationsRaises(exc) ==
    /\ rpc = "invoke"
    /\ rec_log' = Append(rec_log, [input |-> RecommendationInput, output |-> exc,
                                 raised |-> TRUE])
    /\ rpc' = "raised" /\ r_raised' = exc
    /\ UNCHANGED <<threads, disk, pvars, hvars, candidate_scores, num_recommendations, sorted_candidates,
                   candidate_scores_json, recommendations>>

----------------------------------------------------------------------------
(* werkzeug.utils.secure_filename, as app.py:38 and app.py:80 use it (POSIX) *)

Letters == {"a", "b", "c", "d", "e", "f", "g", "h", "i", "j", "k", "l", "m", "n", "o",
            "p", "q", "r", "s", "t", "u", "v", "w", "x", "y", "z"}
Digits == {"0", "1", "2", "3", "4", "5", "6", "7", "8", "9"}

\* the characters [A-Za-z0-9_.-] that the names of this model use
SafeChars == Letters \cup Digits \cup {"_", ".", "-"}

\* the path separator becomes a space
ReplaceSep(s) == [i \in 1..Len(s) |-> IF s[i] = "/" THEN " " ELSE s[i]]

RECURSIVE LStrip(_, _)
LStrip(s, chars) ==
    IF s # <<>> /\ Head(s) \in chars THEN LStrip(Tail(s), chars) ELSE s

Strip(s, chars) == Reverse(LStrip(Reverse(LStrip(s, chars)), chars))

\* "_".join(s.split()) of a string without leading or trailing spaces
RECURSIVE JoinRuns(_)
JoinRuns(s) ==
    IF s = <<>> THEN <<>>
    ELSE IF Head(s) # " " THEN <<Head(s)>> \o JoinRuns(Tail(s))
    ELSE IF Head(Tail(s)) = " " THEN JoinRuns(Tail(s))
    ELSE <<"_">> \o JoinRuns(Tail(s))

IsSafeChar(c) == c \in SafeChars

secure_filename(raw) ==
    Strip(SelectSeq(JoinRuns(Strip(ReplaceSep(raw), {" "})), IsSafeChar), {".", "_"})

----------------------------------------------------------------------------
(* The requests *)

UPLOAD_FOLDER == "uploads"

\* os.path.join(app.config['UPLOAD_FOLDER'], filename)
PathJoin(folder, name) == [folder |-> folder, name |-> name]

TextPdf == [corrupt |-> FALSE, pages |-> <<[is_none |-> FALSE, text |-> <<"j">>]>>]
CorruptPdf == [corrupt |-> TRUE, pages |-> <<>>]

\* raw filenames: "", "cv", "..", "../cv", "c v", "$"
ScreenNames == {<<>>, <<"c", "v">>, <<".", ".">>, <<".", ".", "/", "c", "v">>,
                <<"c", " ", "v">>, <<"$">>}

ScreenUploads == {[filename |-> n, pdf |-> p] : n \in ScreenNames, p \in Pdfs}

\* raw filenames: "", "cv", "..", "../cv", "a"
BatchNames == {<<>>, <<"c", "v">>, <<".", ".">>, <<".", ".", "/", "c", "v">>, <<"a">>}

BatchUploads == {[filename |-> n, pdf |-> p] : n \in BatchNames, p \in {TextPdf, CorruptPdf}}

\* request.files: 'resume' holds at most one part, 'resumes[]' up to MaxFiles
ScreenFiles == SeqsUpTo(ScreenUploads, 1)
BatchFiles == SeqsUpTo(BatchUploads, MaxFiles)

\* the form fields present; their values are fixed
Forms == SUBSET {"job_description", "strictness"}

FormValue(field) == IF field = "job_description" THEN "jd" ELSE "very strict"

\* lines 32, 70: request.form.get('strictness', 'medium')
StrictnessOf(form) == IF "strictness" \in form THEN FormValue("strictness") ELSE "medium"

\* what the scoring chain answers inside a handler
NarrowScores == {ScoreRecord("Jane Doe", 7, MaxSubScore, 0, 2, 0),
                 ScoreRecord("Jane Doe", MaxSubScore + 1, 0, 7, MaxClientNeed + 1, 213)}

----------------------------------------------------------------------------
(* The handlers *)

NoResponse == [outcome |-> "none"]
Returned(status, body) == [outcome |-> "returned", status |-> status, body |-> body]
Escaped(exc) == [outcome |-> "escaped", exception |-> exc]

HandlerIdle ==
    /\ hpc = "idle" /\ endpoint = None
    /\ request = [files |-> <<>>, form |-> {}]
    /\ idx = 0 /\ filename = <<>> /\ results = <<>>
    /\ pending = NoResponse /\ response = NoResponse
    /\ saved = {} /\ invocations = 0

filepath == PathJoin(UPLOAD_FOLDER, filename)

\* a request arrives; the handler's frame is fresh
Receive(ep, fs, form) ==
    /\ hpc = "idle"
    /\ hpc' = "start" /\ endpoint' = ep
    /\ request' = [files |-> fs, form |-> form]
    /\ idx' = 0 /\ filename' = <<>> /\ results' = <<>>
    /\ pending' = NoResponse /\ response' = NoResponse
    /\ saved' = {} /\ invocations' = 0
    /\ UNCHANGED <<threads, disk, pvars, rvars>>

ReceiveScreen(fs, form) == Receive("screen", fs, form)

ReceiveBatch(fs, form) == Receive("batch_screen", fs, form)

\* POST /screen and POST /batch_screen with any of the modelled requests
PostScreen ==
    hpc = "idle" /\ \E fs \in ScreenFiles, form \in Forms : ReceiveScreen(fs, form)

PostBatchScreen ==
    hpc = "idle" /\ \E fs \in BatchFiles, form \in Forms : ReceiveBatch(fs, form)

Respond(r) == response' = r /\ hpc' = "done"

\* the filename test left out
ScreenRejection_NoNameCheck(req) ==
    IF req.files = <<>> THEN "No resume file provided"
    ELSE IF "job_description" \notin req.form THEN "No job description provided"
    ELSE ""

\* lines 24-35: the message of the 400 answer, "" when the request passes
ScreenRejection(req) ==
    IF req.files = <<>> THEN "No resume file provided"
    ELSE IF "job_description" \notin req.form THEN "No job description provided"
    ELSE IF req.files[1].filename = <<>> THEN "No selected file"
    ELSE ""

\* lines 24-39; after line 34 the FileStorage of line 37 is truthy, so line 54
\* is never reached
ScreenValidate ==
    /\ hpc = "start" /\ endpoint = "screen"
    /\ IF ScreenRejection(request) # ""
         THEN /\ Respond(Returned(400, [error |-> ScreenRejection(request)]))
              /\ UNCHANGED <<idx, filename>>
         ELSE /\ idx' = 1
              /\ filename' = secure_filename(request.files[1].filename)
              /\ hpc' = "save"
              /\ UNCHANGED response
    /\ UNCHANGED <<threads, disk, pvars, rvars, endpoint, request, results, pending, saved,
                   invocations>>

\* lines 62-73; getlist of a present key is never empty
BatchRejection(req) ==
    IF req.files = <<>> THEN "No resume files provided"
    ELSE IF "job_description" \notin req.form THEN "No job description provided"
    ELSE ""

\* lines 62-75
BatchValidate ==
    /\ hpc = "start" /\ endpoint = "batch_screen"
    /\ IF BatchRejection(request) # ""
         THEN /\ Respond(Returned(400, [error |-> BatchRejection(request)]))
              /\ UNCHANGED idx
         ELSE /\ idx' = 1
              /\ hpc' = "loop"
              /\ UNCHANGED response
    /\ results' = <<>>
    /\ UNCHANGED <<threads, disk, pvars, rvars, endpoint, request, filename, pending, saved,
                   invocations>>

\* lines 76-81 and 95: the loop head
BatchNext ==
    /\ hpc = "loop"
    /\ IF idx > Len(request.files)
         THEN /\ Respond(Returned(200, results))
              /\ UNCHANGED <<idx, filename>>
         ELSE IF request.files[idx].filename = <<>>
         THEN /\ idx' = idx + 1
              /\ UNCHANGED <<hpc, filename, response>>
         ELSE /\ filename' = secure_filename(request.files[idx].filename)
              /\ hpc' = "save"
              /\ UNCHANGED <<idx, response>>
    /\ UNCHANGED <<threads, disk, pvars, rvars, endpoint, request, results, pending, saved,
                   invocations>>

\* lines 45-50: the except clauses of /screen
ScreenError(exc) ==
    IF exc = "ValidationError"
      THEN Returned(500, [error |-> "Data validation error from LLM output",
                          details |-> exc])
    ELSE IF exc = "FileNotFoundError"
      THEN Returned(500, [error |-> "Resume file not found after upload. Check path."])
    ELSE Returned(500, [error |-> "An error occurred during resume screening", str |-> exc])

\* lines 87-90: the except clauses of /batch_screen
BatchError(name, exc) ==
    IF exc = "ValidationError"
      THEN [filename |-> name, error |-> "Data validation error from LLM output",
            details |-> exc]
      ELSE [filename |-> name, error |-> "Error processing resume", str |-> exc]

\* line 86
BatchScore(name, score) == [filename |-> name, score |-> score]

\* the entry put in front
Appended_InFront(list, entry) == <<entry>> \o list

\* lines 86, 88, 90: results.append
Appended(list, entry) == Append(list, entry)

\* the try block ended with exception exc: the matching except clause runs
Caught(exc) ==
    /\ IF endpoint = "screen"
         THEN pending' = ScreenError(exc) /\ results' = results
         ELSE results' = Appended(results, BatchError(filename, exc)) /\ pending' = pending
    /\ hpc' = "finally"

\* lines 42-43, 84-85: save writes the upload, then process_resume is entered
SaveAndCall ==
    /\ hpc = "save"
    /\ ~IsDir(filepath)
    /\ disk' = [p \in DOMAIN disk \cup {filepath} |->
                  IF p = filepath THEN request.files[idx].pdf ELSE disk[p]]
    /\ saved' = saved \cup {filepath}
    /\ invocations' = invocations + 1
    /\ EnterProcessResume(FormValue("job_description"), filepath, StrictnessOf(request.form))
    /\ hpc' = "processing"
    /\ UNCHANGED <<threads, rvars, endpoint, request, idx, filename, results, pending, response>>

\* lines 42, 84: save raises. open() of the folder itself is IsADirectoryError;
\* any other path may fail with OSError, having created a truncated file or not
SaveFails(created) ==
    /\ hpc = "save"
    /\ IsDir(filepath) => ~created
    /\ disk' = IF created
                 THEN [p \in DOMAIN disk \cup {filepath} |->
                         IF p = filepath THEN CorruptPdf ELSE disk[p]]
                 ELSE disk
    /\ saved' = IF created THEN saved \cup {filepath} ELSE saved
    /\ Caught(IF IsDir(filepath) THEN "IsADirectoryError" ELSE "OSError")
    /\ UNCHANGED <<threads, pvars, rvars, endpoint, request, idx, filename, response, invocations>>

\* process_resume's frame is gone
LeaveProcessResume ==
    /\ ppc' = "idle" /\ p_args' = None
    /\ extracted_keywords' = <<>> /\ categorized_keywords' = None
    /\ resume_text' = <<>> /\ resume_score' = None /\ p_raised' = None
    /\ call_log' = <<>>

\* lines 43-44, 85-86
ProcessReturned ==
    /\ hpc = "processing" /\ ppc = "returned"
    /\ IF endpoint = "screen"
         THEN pending' = Returned(200, resume_score) /\ results' = results
         ELSE results' = Appended(results, BatchScore(filename, resume_score))
              /\ pending' = pending
    /\ hpc' = "finally"
    /\ LeaveProcessResume
    /\ UNCHANGED <<threads, disk, rvars, endpoint, request, idx, filename, response, saved,
                   invocations>>

\* lines 45-50, 87-90
ProcessRaised ==
    /\ hpc = "processing" /\ ppc = "raised"
    /\ Caught(p_raised)
    /\ LeaveProcessResume
    /\ UNCHANGED <<threads, disk, rvars, endpoint, request, idx, filename, response, saved,
                   invocations>>

\* the file left in place
Removed_Nothing(d, path) == d

\* lines 53, 93: os.remove of a regular file
Removed(d, path) == [p \in DOMAIN d \ {path} |-> d[p]]

\* lines 51-54, 91-95: the finally clause, then the pending return or the next
\* iteration. os.remove of the folder raises IsADirectoryError, which leaves the
\* handler in place of whatever the try statement had decided.
Finally ==
    /\ hpc = "finally"
    /\ IF Exists(filepath) /\ IsDir(filepath)
         THEN /\ Respond(Escaped("IsADirectoryError"))
              /\ UNCHANGED <<disk, idx>>
         ELSE /\ disk' = IF Exists(filepath) THEN Removed(disk, filepath) ELSE disk
              /\ IF endpoint = "screen"
                   THEN Respond(pending) /\ idx' = idx
                   ELSE hpc' = "loop" /\ idx' = idx + 1 /\ response' = response
    /\ UNCHANGED <<threads, pvars, rvars, endpoint, request, filename, results, pending, saved,
                   invocations>>

\* the response is out and the handler's frame is gone; the folder stays
Close ==
    /\ hpc = "done"
    /\ hpc' = "idle" /\ endpoint' = None
    /\ request' = [files |-> <<>>, form |-> {}]
    /\ idx' = 0 /\ filename' = <<>> /\ results' = <<>>
    /\ pending' = NoResponse /\ response' = NoResponse
    /\ saved' = {} /\ invocations' = 0
    /\ UNCHANGED <<threads, disk, pvars, rvars>>

Init ==
    /\ disk = << >>
    /\ PipelineIdle
    /\ RecommendIdle
    /\ HandlerIdle
    /\ threads = << >>

Next ==
    \/ PostScreen
    \/ PostBatchScreen
    \/ ScreenValidate
    \/ BatchValidate
    \/ BatchNext
    \/ SaveAndCall
    \/ \E created \in BOOLEAN : SaveFails(created)
    \/ PipelineStep
    \/ ScoringAnswers(NarrowScores)
    \/ ProcessReturned
    \/ ProcessRaised
    \/ Finally
    \/ Close

Spec == Init /\ [][Next]_vars

----------------------------------------------------------------------------
(* Claims about the handlers *)

HasName(f) == f.filename # <<>>

Named(fs) == SelectSeq(fs, HasName)

HasText(pdf) ==
    ~pdf.corrupt /\ \E i \in 1..Len(pdf.pages) : PageOrEmpty(pdf.pages[i]) # <<>>

IsScoreEntry(e) == "score" \in DOMAIN e
IsErrorEntry(e) == "error" \in DOMAIN e

BatchAccepted ==
    /\ endpoint = "batch_screen"
    /\ request.files # <<>>
    /\ "job_description" \in request.form

\* C4: a /batch_screen request with K files and a job_description ends with a
\* result list of exactly K minus (empty-named files) entries, the i-th tagged
\* with the (sanitized) filename of the i-th named file.  Stated for K >= 1: at
\* K = 0 the key 'resumes[]' is absent and line 62 answers 400.
C4_BatchResultCount ==
    (BatchAccepted /\ hpc = "done") =>
        /\ response.outcome = "returned"
        /\ Len(response.body) = Len(Named(request.files))
        /\ \A i \in 1..Len(response.body) :
              response.body[i].filename = secure_filename(Named(request.files)[i].filename)

\* the files whose iteration has added its entry
Handled ==
    IF hpc = "finally" \/ (hpc = "done" /\ response.outcome = "escaped")
      THEN idx
      ELSE IF idx = 0 THEN 0 ELSE idx - 1

\* C5: /batch_screen handles its files one after another and keeps results in
\* submission order: at every moment results holds one entry for each named file
\* already handled, the i-th for the i-th of them, each with exactly one of a
\* score or an error; only the file being handled is on disk or in the pipeline;
\* and the 200 response is that list for all the files.
C5_BatchInOrder ==
    endpoint = "batch_screen" =>
        LET handled == Named(SubSeq(request.files, 1, Handled))
        IN  /\ Len(results) = Len(handled)
            /\ \A i \in 1..Len(results) :
                  /\ results[i].filename = secure_filename(handled[i].filename)
                  /\ IsScoreEntry(results[i]) # IsErrorEntry(results[i])
                  /\ IsScoreEntry(results[i]) => HasText(handled[i].pdf)
            /\ DOMAIN disk \subseteq {filepath}
            /\ ppc # "idle" =>
                  /\ hpc = "processing"
                  /\ p_args.resume_file_path = filepath
                  /\ filename = secure_filename(request.files[idx].filename)
            /\ (hpc = "done" /\ response.outcome = "returned" /\ response.status = 200) =>
                  /\ response.body = results
                  /\ Handled = Len(request.files)

\* a batch of two named files answered 200 with an error entry then a score entry
C5_Witness ==
    /\ endpoint = "batch_screen" /\ hpc = "done"
    /\ response.outcome = "returned" /\ response.status = 200
    /\ Len(results) = 2
    /\ IsErrorEntry(results[1]) /\ IsScoreEntry(results[2])
    /\ results[1].filename # results[2].filename

\* C6: in /batch_screen a failure on one file gives an error entry for that file
\* only; the later files are still handled and the response is 200.
C6_FailureIsolated ==
    (endpoint = "batch_screen" /\ hpc = "done"
        /\ \E i \in 1..Len(results) : IsErrorEntry(results[i])) =>
        /\ response.outcome = "returned"
        /\ response.status = 200
        /\ response.body = results
        /\ Len(results) = Len(Named(request.files))

\* C8: once a /screen or /batch_screen handler has ended, on whatever path, no
\* file that its saves created is left in the upload folder.
C8_NoTransientFileLeft ==
    hpc \in {"done", "idle"} => \A path \in saved : path \notin DOMAIN disk

\* a handler that saved a file ended on an error path
C8_Witness ==
    /\ hpc = "done" /\ endpoint = "screen"
    /\ saved # {}
    /\ response.outcome = "returned" /\ response.status = 500

ScreenMalformed ==
    \/ request.files = <<>>
    \/ "job_description" \notin request.form
    \/ request.files[1].filename = <<>>

\* C9: /screen answers 400 with an error payload when the resume part or the
\* job_description field is missing or the filename is empty, without saving a
\* file and without entering process_resume.
C9_ScreenRejects ==
    (endpoint = "screen" /\ hpc # "start" /\ ScreenMalformed) =>
        /\ hpc = "done"
        /\ response.outcome = "returned" /\ response.status = 400
        /\ "error" \in DOMAIN response.body
        /\ saved = {} /\ disk = << >>
        /\ invocations = 0 /\ ppc = "idle"

\* a resume with an empty filename and a job_description was rejected
C9_Witness ==
    /\ endpoint = "screen" /\ hpc = "done"
    /\ request.files # <<>>
    /\ "job_description" \in request.form
    /\ request.files[1].filename = <<>>
    /\ response.status = 400

\* C10: a well-formed /screen request always gets a response, 200 with the
\* ResumeScore or 500 with an error payload; no exception leaves the handler.
C10_ScreenAlwaysResponds ==
    (endpoint = "screen" /\ hpc = "done" /\ ~ScreenMalformed) =>
        /\ response.outcome = "returned"
        /\ \/ response.status = 200 /\ "technical_score" \in DOMAIN response.body
           \/ response.status = 500 /\ "error" \in DOMAIN response.body

----------------------------------------------------------------------------
(* get_recommendations called with a list of candidates and a count *)

\* get_recommendations(candidate_scores, num_recommendations) is called
InitRecommend ==
    /\ disk = << >>
    /\ PipelineIdle
    /\ HandlerIdle
    /\ threads = << >>
    /\ rpc = "start"
    /\ candidate_scores \in SeqsUpTo(Candidates, MaxCandidates)
    /\ num_recommendations \in 0..MaxCount
    /\ sorted_candidates = <<>> /\ candidate_scores_json = <<>>
    /\ recommendations = None /\ r_raised = None /\ rec_log = <<>>

NextRecommend ==
    \/ ReturnEmpty
    \/ SortAndSerialize
    \/ \E out \in RecommendationOutputs : RecommendationsReturns(out)
    \/ \E exc \in LLMErrors : RecommendationsRaises(exc)

SpecRecommend == InitRecommend /\ [][NextRecommend]_vars

----------------------------------------------------------------------------
(* Claims about get_recommendations *)

\* C2: for an empty candidate sequence and any count, get_recommendations returns
\* an empty RecommendationList and never invokes the recommendation chain.
C2_EmptyInputNoCall ==
    candidate_scores = <<>> =>
        /\ rec_log = <<>>
        /\ rpc \in {"start", "returned"}
        /\ rpc = "returned" => recommendations = [recommendations |-> <<>>]

C2_Witness ==
    candidate_scores = <<>> /\ rpc = "returned" /\ num_recommendations = 2

IsPermutation(order, n) ==
    /\ Len(order) = n
    /\ \A k \in 1..n : \E i \in 1..n : order[i] = k

\* C3: what the recommendation chain is handed is a permutation of the input in
\* descending order of aggregate_score (0 where the key is absent), and entries
\* of equal aggregate_score stand in their input order.
C3_DispatchSortedStable ==
    \A c \in 1..Len(rec_log) :
        LET sent == rec_log[c].input.candidate_scores_json
            n == Len(candidate_scores)
        IN  /\ IsPermutation(sorted_candidates, n)
            /\ Len(sent) = n
            /\ \A i \in 1..n : sent[i] = candidate_scores[sorted_candidates[i]]
            /\ \A i, j \in 1..n :
                  i < j =>
                    /\ SortKey(sent[i]).n >= SortKey(sent[j]).n
                    /\ SortKey(sent[i]).n = SortKey(sent[j]).n
                          => sorted_candidates[i] < sorted_candidates[j]

\* three candidates were sent, two of them tied and one that had to move
C3_Witness ==
    /\ Len(rec_log) = 1
    /\ Len(candidate_scores) = 3
    /\ SortKey(candidate_scores[1]).n = SortKey(candidate_scores[3]).n
    /\ SortKey(candidate_scores[2]).n > SortKey(candidate_scores[1]).n
    /\ candidate_scores[1] # candidate_scores[3]
    /\ sorted_candidates = <<2, 1, 3>>

\* C11: a RecommendationList that get_recommendations returns for the count N
\* holds at most N candidates.
C11_AtMostRequested ==
    rpc = "returned" => Len(recommendations.recommendations) <= num_recommendations

\* C16: for a non-empty candidate list get_recommendations returns the very list
\* the recommendation chain answered, entry for entry, whatever its length is
\* against the requested count; an answer is never turned into an error.
C16_ReturnsAdapterList ==
    candidate_scores # <<>> =>
        /\ rpc = "returned" => Len(rec_log) = 1 /\ ~rec_log[1].raised
        /\ \A c \in 1..Len(rec_log) :
              ~rec_log[c].raised =>
                /\ rpc = "returned"
                /\ r_raised = None
                /\ recommendations = rec_log[c].output

\* one was asked for and the two the chain answered came back
C16_Witness ==
    /\ rpc = "returned"
    /\ candidate_scores # <<>>
    /\ num_recommendations = 1
    /\ Len(recommendations.recommendations) = 2
    /\ recommendations.recommendations[1] # recommendations.recommendations[2]

----------------------------------------------------------------------------
(* process_resume called directly (resume_filter.py:229-265) *)

ResumePath == [folder |-> "resumes", name |-> <<"D">>]

InitScore ==
    /\ PipelineIdle
    /\ RecommendIdle
    /\ HandlerIdle
    /\ threads = << >>
    /\ \/ disk = << >>
       \/ \E pdf \in Pdfs : disk = (ResumePath :> pdf)

\* line 244
DirectCall(jd, strictness) ==
    /\ ppc = "idle"
    /\ EnterProcessResume(jd, ResumePath, strictness)
    /\ UNCHANGED <<threads, disk, rvars, hvars>>

NextScore ==
    \/ \E jd \in JobDescriptions, st \in StrictnessLevels : DirectCall(jd, st)
    \/ PipelineStep
    \/ ScoringAnswers(WideScores)

SpecScore == InitScore /\ [][NextScore]_vars

----------------------------------------------------------------------------
(* Claims about process_resume *)

Calls(callee) == {i \in 1..Len(call_log) : call_log[i].callee = callee}

\* C1: every ResumeScore that process_resume returns has 30 * aggregate_score =
\* 12 technical + 9 softskills + 6 extracurricular + 10 client_need over its own
\* sub-scores, whatever aggregate_score the scoring chain put in the record.
C1_AggregateIsWeightedSum ==
    ppc = "returned" =>
        resume_score.agg30 = 12 * resume_score.technical_score
                             + 9 * resume_score.softskills_score
                             + 6 * resume_score.extracurricular_score
                             + 10 * resume_score.client_need_score

\* a score is returned whose aggregate differs from the one the chain supplied
C1_Witness ==
    /\ ppc = "returned"
    /\ resume_score.client_need_score = 2
    /\ resume_score.technical_score = 7
    /\ \E i \in Calls("scoring") : call_log[i].output.agg30 # resume_score.agg30

\* C7: once extraction has given empty text, process_resume ends with an error
\* (ValueError), returns no ResumeScore and never invokes the scoring chain.
EmptyExtraction ==
    \E i \in Calls("extract_text_from_pdf") : call_log[i].output = <<>>

C7_EmptyTextIsAnError ==
    EmptyExtraction =>
        /\ ppc = "raised"
        /\ p_raised = "ValueError"
        /\ Calls("scoring") = {}

\* the resume on disk is a decodable PDF none of whose pages has text
C7_Witness ==
    /\ EmptyExtraction
    /\ ppc = "raised"
    /\ p_args.resume_file_path \in DOMAIN disk
    /\ ~disk[p_args.resume_file_path].corrupt
    /\ Len(disk[p_args.resume_file_path].pages) = 2

InRange(x, lo, hi) == lo <= x /\ x <= hi

\* C12: a ResumeScore that process_resume returns has technical, softskills and
\* extracurricular scores within 0..10, a client_need_score within 0..3 and so an
\* aggregate_score within 0..10.
C12_ScoresInRange ==
    ppc = "returned" =>
        /\ InRange(resume_score.technical_score, 0, MaxSubScore)
        /\ InRange(resume_score.softskills_score, 0, MaxSubScore)
        /\ InRange(resume_score.extracurricular_score, 0, MaxSubScore)
        /\ InRange(resume_score.client_need_score, 0, MaxClientNeed)
        /\ InRange(resume_score.agg30, 0, 30 * MaxSubScore)

StepOrder == <<"keywords", "categorization", "extract_text_from_pdf", "scoring">>

\* C14: process_resume calls keyword extraction, categorization, text extraction
\* and scoring in this order and then computes the aggregate: categorization gets
\* the keywords that extraction returned, text extraction starts after
\* categorization returned, and scoring is called only with non-empty extracted
\* text, the four buckets that categorization returned and the caller's strictness.
C14_StepsInOrder ==
    LET n == Len(call_log)
    IN  /\ n <= 4
        /\ \A i \in 1..n : call_log[i].callee = StepOrder[i]
        /\ n >= 1 => call_log[1].input = p_args.job_description_prompt
        /\ n >= 2 => /\ ~call_log[1].raised
                     /\ call_log[2].input = call_log[1].output
        /\ n >= 3 => /\ ~call_log[2].raised
                     /\ call_log[3].input = p_args.resume_file_path
        /\ n >= 4 => /\ call_log[3].output # <<>>
                     /\ call_log[4].input.resume_text = call_log[3].output
                     /\ call_log[4].input.technical = call_log[2].output.technical
                     /\ call_log[4].input.soft_skills = call_log[2].output.soft_skills
                     /\ call_log[4].input.extracurricular
                           = call_log[2].output.extracurricular
                     /\ call_log[4].input.client_need
                           = call_log[2].output.recruiter_requirements
                     /\ call_log[4].input.strictness = p_args.strictness_level
        /\ ppc \in {"aggregate", "returned"} => n = 4 /\ ~call_log[4].raised

\* a score came back for a call with a strictness other than the default and
\* non-empty buckets
C14_Witness ==
    /\ ppc = "returned"
    /\ p_args.strictness_level = "very strict"
    /\ Len(call_log) = 4
    /\ call_log[4].input.technical = <<"sql">>
    /\ call_log[2].input = <<"sql", "proactive">>

----------------------------------------------------------------------------
(* One call of either pipeline function *)

InitCalls == InitScore \/ InitRecommend

NextCalls ==
    \/ rpc = "idle" /\ NextScore
    \/ NextRecommend

SpecCalls == InitCalls /\ [][NextCalls]_vars

\* C15: no chain is invoked twice within one process_resume or one
\* get_recommendations call, and a chain invocation that raises is the last thing
\* the call does: it ends with that exception.
C15_NoRetry ==
    /\ \A callee \in {"keywords", "categorization", "scoring"} :
          Cardinality(Calls(callee)) <= 1
    /\ Len(rec_log) <= 1
    /\ \A i \in 1..Len(call_log) :
          call_log[i].raised =>
            /\ i = Len(call_log)
            /\ ppc = "raised"
            /\ p_raised = call_log[i].output
    /\ \A c \in 1..Len(rec_log) :
          rec_log[c].raised =>
            /\ rpc = "raised"
            /\ r_raised = rec_log[c].output

\* the categorization chain failed after the keyword chain had answered
C15_Witness ==
    /\ Len(call_log) = 2
    /\ call_log[2].raised
    /\ ppc = "raised"

----------------------------------------------------------------------------
(* Two requests served at the same time.  app.run (app.py:122) starts          *)
(* werkzeug's server, which handles every request in a thread of its own; the   *)
(* threads share the upload folder.  Each thread runs the handler from the      *)
(* point where its request has passed the 400 checks.  A step is one access to  *)
(* the folder or one chain call; save writes its file in one step.              *)

Clients == {1, 2}

Mark == <<"1", "2">>

\* the text of the k-th file that client c uploads: it names c and k
ClientText(c, k) == <<Mark[c], Mark[k]>>

\* the k-th file that client c uploads: one page with that text
ClientPdf(c, k) ==
    [corrupt |-> FALSE, pages |-> <<[is_none |-> FALSE, text |-> ClientText(c, k)]>>]

\* "cv" and "../cv" are sanitized to the same name
ClientScreenNames == {<<"c", "v">>, <<".", ".", "/", "c", "v">>, <<"a">>}

ClientBatchNames == {<<"c", "v">>, <<"a">>}

\* requests that pass the checks of lines 24-35 and 62-73
ClientRequests ==
    {[endpoint |-> "screen", names |-> ns] : ns \in [1..1 -> ClientScreenNames]}
    \cup {[endpoint |-> "batch_screen", names |-> ns] :
            ns \in SeqsUpTo(ClientBatchNames, MaxFiles) \ {<<>>}}

\* the handler's frame when the request has arrived
Frame(req) ==
    [pc |-> "start", endpoint |-> req.endpoint, names |-> req.names, idx |-> 0,
     filename |-> <<>>, resume_text |-> <<>>, results |-> <<>>,
     pending |-> NoResponse, response |-> NoResponse, reads |-> <<>>]

\* lines 39, 81
ThreadPath(t) == PathJoin(UPLOAD_FOLDER, threads[t].filename)

\* thread t's frame becomes f; no other frame changes
Becomes(t, f) == threads' = [threads EXCEPT ![t] = f]

\* lines 37-39 and 75
ThreadBegin(t) ==
    /\ threads[t].pc = "start"
    /\ IF threads[t].endpoint = "screen"
         THEN Becomes(t, [threads[t] EXCEPT !.idx = 1,
                             !.filename = secure_filename(threads[t].names[1]),
                             !.pc = "save"])
         ELSE Becomes(t, [threads[t] EXCEPT !.idx = 1, !.pc = "loop"])
    /\ UNCHANGED <<disk, pvars, rvars, hvars>>

\* lines 76-81 and 95
ThreadLoop(t) ==
    /\ threads[t].pc = "loop"
    /\ IF threads[t].idx > Len(threads[t].names)
         THEN Becomes(t, [threads[t] EXCEPT !.response = Returned(200, threads[t].results),
                             !.pc = "done"])
         ELSE IF threads[t].names[threads[t].idx] = <<>>
         THEN Becomes(t, [threads[t] EXCEPT !.idx = @ + 1])
         ELSE Becomes(t, [threads[t] EXCEPT
                             !.filename = secure_filename(threads[t].names[threads[t].idx]),
                             !.pc = "save"])
    /\ UNCHANGED <<disk, pvars, rvars, hvars>>

\* lines 45-50, 87-90: the frame after the try block ended with exc
ThreadCaught(f, exc) ==
    IF f.endpoint = "screen"
      THEN [f EXCEPT !.pending = ScreenError(exc), !.pc = "exists"]
      ELSE [f EXCEPT !.results = Appended(f.results, BatchError(f.filename, exc)),
                     !.pc = "exists"]

\* lines 42, 84: save opens the path for writing, which replaces whatever file
\* is there
ThreadSave(t) ==
    /\ threads[t].pc = "save"
    /\ IF IsDir(ThreadPath(t))
         THEN /\ Becomes(t, ThreadCaught(threads[t], "IsADirectoryError"))
              /\ UNCHANGED disk
         ELSE /\ disk' = [p \in DOMAIN disk \cup {ThreadPath(t)} |->
                            IF p = ThreadPath(t) THEN ClientPdf(t, threads[t].idx)
                                                 ELSE disk[p]]
              /\ Becomes(t, [threads[t] EXCEPT !.resume_text = <<>>, !.pc = "keywords"])
    /\ UNCHANGED <<pvars, rvars, hvars>>

\* resume_filter.py:165-166: the keyword chain answers or raises
ThreadKeywords(t, exc) ==
    /\ threads[t].pc = "keywords"
    /\ IF exc = None
         THEN Becomes(t, [threads[t] EXCEPT !.pc = "categorize"])
         ELSE Becomes(t, ThreadCaught(threads[t], exc))
    /\ UNCHANGED <<disk, pvars, rvars, hvars>>

\* resume_filter.py:169-174: the categorization chain answers or raises
ThreadCategorize(t, exc) ==
    /\ threads[t].pc = "categorize"
    /\ IF exc = None
         THEN Becomes(t, [threads[t] EXCEPT !.pc = "extract"])
         ELSE Becomes(t, ThreadCaught(threads[t], exc))
    /\ UNCHANGED <<disk, pvars, rvars, hvars>>

\* resume_filter.py:177-179: the file at the thread's path is read
ThreadExtract(t) ==
    /\ threads[t].pc = "extract"
    /\ LET text == extract_text_from_pdf(ThreadPath(t))
           read == [threads[t] EXCEPT
                      !.resume_text = text,
                      !.reads = Append(@, [idx |-> threads[t].idx, text |-> text])]
       IN  IF TextMissing(text)
             THEN Becomes(t, ThreadCaught(read, "ValueError"))
             ELSE Becomes(t, [read EXCEPT !.pc = "score"])
    /\ UNCHANGED <<disk, pvars, rvars, hvars>>

\* resume_filter.py:190-206 and app.py:43-44, 85-86: the scoring chain answers
\* or raises
ThreadScore(t, score, exc) ==
    /\ threads[t].pc = "score"
    /\ IF exc = None
         THEN IF threads[t].endpoint = "screen"
                THEN Becomes(t, [threads[t] EXCEPT !.pending = Returned(200, score),
                                    !.pc = "exists"])
                ELSE Becomes(t, [threads[t] EXCEPT
                                    !.results = Appended(@, BatchScore(threads[t].filename, score)),
                                    !.pc = "exists"])
         ELSE Becomes(t, ThreadCaught(threads[t], exc))
    /\ UNCHANGED <<disk, pvars, rvars, hvars>>

\* lines 53-54, 93-95: the try statement is over
ThreadAfterFinally(f) ==
    IF f.endpoint = "screen"
      THEN [f EXCEPT !.response = f.pending, !.pc = "done"]
      ELSE [f EXCEPT !.idx = @ + 1, !.pc = "loop"]

\* lines 52, 92: os.path.exists
ThreadExists(t) ==
    /\ threads[t].pc = "exists"
    /\ IF Exists(ThreadPath(t))
         THEN Becomes(t, [threads[t] EXCEPT !.pc = "remove"])
         ELSE Becomes(t, ThreadAfterFinally(threads[t]))
    /\ UNCHANGED <<disk, pvars, rvars, hvars>>

\* lines 53, 93: os.remove; it raises when the path is a folder or is gone, and
\* the exception leaves the handler
ThreadRemove(t) ==
    /\ threads[t].pc = "remove"
    /\ IF IsDir(ThreadPath(t))
         THEN /\ Becomes(t, [threads[t] EXCEPT !.response = Escaped("IsADirectoryError"),
                                 !.pc = "done"])
              /\ UNCHANGED disk
         ELSE IF ThreadPath(t) \notin DOMAIN disk
         THEN /\ Becomes(t, [threads[t] EXCEPT !.response = Escaped("FileNotFoundError"),
                                 !.pc = "done"])
              /\ UNCHANGED disk
         ELSE /\ disk' = Removed(disk, ThreadPath(t))
              /\ Becomes(t, ThreadAfterFinally(threads[t]))
    /\ UNCHANGED <<pvars, rvars, hvars>>

\* one answer of the scoring chain stands for all: its value plays no part here
ThreadScores == {ScoreRecord("Jane Doe", 7, MaxSubScore, 0, 2, 0)}

\* a chain call returns (None) or raises; which exception it is changes only
\* the message of the error entry
ChainOutcomes == {None, "Exception"}

InitConcurrent ==
    /\ disk = << >>
    /\ PipelineIdle
    /\ RecommendIdle
    /\ HandlerIdle
    /\ threads \in [Clients -> {Frame(req) : req \in ClientRequests}]

NextConcurrent ==
    \/ \E t \in Clients : ThreadBegin(t)
    \/ \E t \in Clients : ThreadLoop(t)
    \/ \E t \in Clients : ThreadSave(t)
    \/ \E t \in Clients, exc \in ChainOutcomes : ThreadKeywords(t, exc)
    \/ \E t \in Clients, exc \in ChainOutcomes : ThreadCategorize(t, exc)
    \/ \E t \in Clients : ThreadExtract(t)
    \/ \E t \in Clients, score \in ThreadScores, exc \in ChainOutcomes :
          ThreadScore(t, score, exc)
    \/ \E t \in Clients : ThreadExists(t)
    \/ \E t \in Clients : ThreadRemove(t)

SpecConcurrent == InitConcurrent /\ [][NextConcurrent]_vars

\* thread t has saved its file and its pipeline has not read it yet
InUse(t) == threads[t].pc \in {"keywords", "categorize", "extract"}

\* the file at thread t's path is the one it saved
OwnFileInPlace(t) ==
    /\ ThreadPath(t) \in DOMAIN disk
    /\ disk[ThreadPath(t)] = ClientPdf(t, threads[t].idx)

\* C13: in every interleaving of two /screen or /batch_screen requests, also of
\* two whose sanitized filenames are equal, the transient file a request is
\* using is not removed or overwritten by the other request, and the pipeline
\* of each request reads exactly the bytes that request uploaded.
C13_RequestsIsolated ==
    \A t \in Clients :
        /\ InUse(t) => OwnFileInPlace(t)
        /\ \A i \in 1..Len(threads[t].reads) :
              threads[t].reads[i].text = ClientText(t, threads[t].reads[i].idx)

====
